---- MODULE Spec2Model ----
(***************************************************************************)
(* A model of 1d_tests/mcmc_het.py: the two-coordinate Metropolis sampler  *)
(* do_mcmc, the energy model energy_em and the prior.                      *)
(*                                                                         *)
(* Numbers.  The program computes in float64.  The model computes in       *)
(* fixed point: a real r is the integer r * ONE, rounded.  Coordinates,    *)
(* observations and displacements are whole numbers (kept unscaled);       *)
(* energies, priors, scores and thresholds are fixed-point values.  exp    *)
(* and log are computed by their series, not tabulated and not taken as    *)
(* the identity, so two formulas that differ as real functions differ in   *)
(* the model too.                                                          *)
(***************************************************************************)
EXTENDS Integers, Sequences, FiniteSets, TLC

\* ------------------------------------------------------------------------
\* Bounds of the model (not constants of the program).
\* ------------------------------------------------------------------------

\* do_mcmc is called with steps in 1..MaxSteps.
MaxSteps == 3

\* ------------------------------------------------------------------------
\* Constants of the program.
\* ------------------------------------------------------------------------

\* The prior width passed at both call sites of prior in do_mcmc.
PriorWidth == 3

\* ------------------------------------------------------------------------
\* Fixed-point arithmetic standing for float64.
\* ------------------------------------------------------------------------

\* The fixed-point unit: the integer that stands for 1.0.
ONE == 100 * 100

\* The value standing for +inf (-np.log(0.0)); larger than any finite value
\* the model computes.
INF == ONE * ONE

\* e^-1 and ln 2 in fixed point.
EInv == (3679 * ONE) \div 10000
Ln2 == (6931 * ONE) \div 10000

Max2(a, b) == IF a >= b THEN a ELSE b

\* a * b of two fixed-point values.
FMul(a, b) == (a * b) \div ONE

\* e^(-r/ONE) for 0 <= r < ONE: the alternating series, term k being
\* r^k / k!, summed until the term vanishes.
RECURSIVE ExpSeries(_, _, _, _)
ExpSeries(r, k, term, acc) ==
    IF term = 0 THEN acc
    ELSE LET next == (term * r) \div (k * ONE)
         IN  ExpSeries(r, k + 1, next,
                       IF k % 2 = 1 THEN acc - next ELSE acc + next)

\* e^-n for a whole n >= 0.
RECURSIVE ExpWhole(_)
ExpWhole(n) == IF n = 0 THEN ONE ELSE FMul(EInv, ExpWhole(n - 1))

\* np.exp(t) for a fixed-point t <= 0.
ExpNeg(t) ==
    LET u == -t
    IN  IF u >= 16 * ONE THEN 0
        ELSE FMul(ExpWhole(u \div ONE), ExpSeries(u % ONE, 1, ONE, ONE))

\* 2 * atanh(z) = 2 (z + z^3/3 + z^5/5 + ...), the series of the logarithm.
RECURSIVE AtanhSeries(_, _, _, _)
AtanhSeries(z2, k, pow, acc) ==
    IF pow = 0 THEN acc
    ELSE AtanhSeries(z2, k + 2, FMul(pow, z2), acc + pow \div k)

\* np.log(y) for a fixed-point y in [1, 2].
LnUnit(y) ==
    LET z == ((y - ONE) * ONE) \div (y + ONE)
    IN  2 * AtanhSeries(FMul(z, z), 1, z, 0)

\* np.log(y) for a fixed-point y >= 0; log(0) is -inf.
RECURSIVE Ln(_)
Ln(y) ==
    IF y <= 0 THEN -INF
    ELSE IF y < ONE THEN Ln(2 * y) - Ln2
    ELSE IF y > 2 * ONE THEN Ln((y + 1) \div 2) + Ln2
    ELSE LnUnit(y)

\* ------------------------------------------------------------------------
\* The energy model and the prior.
\* ------------------------------------------------------------------------

\* scipy.special.logsumexp over the two rows of a column: log(e^h1 + e^h2),
\* computed as scipy does, with the maximum taken out of the exponentials.
LogSumExp2(h1, h2) ==
    LET m == Max2(h1, h2)
    IN  m + Ln(ExpNeg(h1 - m) + ExpNeg(h2 - m))

\* np.exp(-(X[j] - v)**2 / (2 * sigma**2)) for one coordinate xj and one
\* observation v.
Kernel(xj, v, sigma) ==
    ExpNeg(-(((xj - v) * (xj - v) * ONE) \div (2 * sigma * sigma)))

\* Column with the weight 0.5 applied to the first coordinate's kernel only.
ColumnFirstWeighted(X, v, sigma) ==
    LogSumExp2(Kernel(X[1], v, sigma) \div 2, Kernel(X[2], v, sigma))

\* The column of observation v: logsumexp of 0.5 * kernel over the two
\* coordinates (axis 0).
Column(X, v, sigma) ==
    LogSumExp2(Kernel(X[1], v, sigma) \div 2, Kernel(X[2], v, sigma) \div 2)

\* np.sum over the columns of the observations images[1..n].
RECURSIVE SumColumns(_, _, _, _)
SumColumns(X, images, sigma, n) ==
    IF n = 0 THEN 0
    ELSE SumColumns(X, images, sigma, n - 1) + Column(X, images[n], sigma)

\* energy_em(X, images, sigma, kT).  np.sum of an empty array is 0.0, so the
\* energy of an empty dataset is 0 for every X.
energy_em(X, images, sigma, kT) ==
    -(kT * SumColumns(X, images, sigma, Len(images)))

\* The prior without the square: kT * 0.5 * (x / sigma).
priorLinear(x, sigma, kT) == (kT * x * ONE) \div (2 * sigma)

\* prior = lambda x, sigma, kT: kT * 0.5 * (x / sigma)**2
prior(x, sigma, kT) == (kT * x * x * ONE) \div (2 * sigma * sigma)

\* ------------------------------------------------------------------------
\* The inputs of a call of do_mcmc.
\* ------------------------------------------------------------------------

\* The datasets (images) a call is made with; the first is the empty one.
ImagesSet == {<< >>, <<0>>, <<-1, 1>>}

\* The initial configurations x0.
X0Set == {<<0, 0>>, <<-1, 2>>}

\* The pairs <<sigma, kT>>.
ParamSet == {<<1, 1>>, <<2, 1>>, <<1, 2>>}

\* What the global name p_em, which do_mcmc calls and the file never defines,
\* is bound to when do_mcmc runs: nothing (the file as written), or the
\* file's energy model (a caller that binds it before the call).
BindingSet == {"unbound", "energy_em"}

\* A displacement drawn by np.random.normal(0, 0.1, 2), in whole units.
DxSet == {-1, 0, 1}

\* A draw of np.random.rand(2), a fixed-point value of [0, 1).  The
\* thresholds they give are +inf, 0.1057 and 0.0555; the last is also a
\* score that occurs (a prior difference), so that a score can equal its
\* threshold.
USet == {0, 9000, 9464}

\* np.zeros((steps, 2)) as a sequence of steps rows.
Zeros(steps) == [r \in 1..steps |-> <<0, 0>>]

\* ------------------------------------------------------------------------
\* The state.
\* ------------------------------------------------------------------------

VARIABLES
    steps, images, x0, sigma, kT,  \* the arguments of the call
    p_em,        \* the binding of the global name p_em
    pc,          \* "call", "for", "body", "branch", "done", "error"
    err,         \* the exception raised, "" if none
    x,           \* the current configuration
    samples,     \* the sample buffer, row r of the array at index r + 1
    old_e,       \* the cached energy
    c,           \* the accepted-sample counter
    it,          \* the iterations of the for loop started so far
    dx, trial,   \* the displacements and the trial coordinates x1, x2
    a, p_a,      \* the scores a1, a2 and the thresholds
    taken,       \* the branch the last completed iteration took
    ret,         \* the value returned
    appends, skips, \* history: iterations that appended, that did not
    accepted     \* history: the configurations adopted, in order

vars == <<steps, images, x0, sigma, kT, p_em, pc, err, x, samples, old_e, c,
          it, dx, trial, a, p_a, taken, ret, appends, skips, accepted>>

args == <<steps, images, x0, sigma, kT, p_em>>

\* The value of a local that is not bound, or dead (never read again before
\* it is assigned).
None == << >>

Init ==
    /\ steps \in 1..MaxSteps
    /\ images \in ImagesSet
    /\ x0 \in X0Set
    /\ \E prm \in ParamSet : sigma = prm[1] /\ kT = prm[2]
    /\ p_em \in BindingSet
    /\ pc = "call"
    /\ err = ""
    /\ x = None /\ samples = None /\ old_e = 0 /\ c = 0 /\ it = 0
    /\ dx = None /\ trial = None /\ a = None /\ p_a = None
    /\ taken = "" /\ ret = None
    /\ appends = 0 /\ skips = 0 /\ accepted = << >>

\* ------------------------------------------------------------------------
\* The operations of do_mcmc.
\* ------------------------------------------------------------------------

\* A call p_em(X, images, sigma, kT) when the name is bound to energy_em.
CallPEm(X) == energy_em(X, images, sigma, kT)

\* The loop written range(0, steps): one iteration too many.
LoopCountFromZero(n) == n

\* len(range(1, steps)): the iterations the for loop runs.
LoopCount(n) == n - 1

\* An accepting branch that forgets c += 1.
NextCForgotten(n) == n

\* c += 1
NextC(n) == n + 1

\* return samples[1:c, :]: step 0 left out.
SliceFromOne(buf, n) == SubSeq(buf, 2, IF n <= Len(buf) THEN n ELSE Len(buf))

\* return samples: the whole buffer, unwritten rows included.
SliceWhole(buf, n) == buf

\* return samples[:c, :].flatten(): the coordinates, not the rows.
SliceFlattened(buf, n) ==
    [k \in 1..(2 * (IF n <= Len(buf) THEN n ELSE Len(buf))) |->
        buf[(k + 1) \div 2][2 - (k % 2)]]

\* samples[:c, :], the slice do_mcmc returns (a slice stops at the end of
\* the array).
Slice(buf, n) == SubSeq(buf, 1, IF n <= Len(buf) THEN n ELSE Len(buf))

\* a1 with the prior terms the other way round: + prior(x1) - prior(x[0]).
Score1PriorSwapped(cur, x1, e) ==
    CallPEm(<<x1, cur[2]>>) - e + prior(x1, PriorWidth, kT)
        - prior(cur[1], PriorWidth, kT)

\* The scores a1 and a2 of the trial coordinates x1 and x2 against the
\* current configuration cur and the cached energy e.
Score1(cur, x1, e) ==
    CallPEm(<<x1, cur[2]>>) - e - prior(x1, PriorWidth, kT)
        + prior(cur[1], PriorWidth, kT)

Score2(cur, x2, e) ==
    CallPEm(<<cur[1], x2>>) - e - prior(x2, PriorWidth, kT)
        + prior(cur[2], PriorWidth, kT)

\* p_a = -np.log(np.random.rand()) for a draw u.
Threshold(u) == -Ln(u)

\* The chain with its first test written a1 <= 0 and a2 <= 0: a score of
\* exactly 0 is accepted there.
BranchNonStrict(a1, a2, p1, p2) ==
    IF a1 <= 0 /\ a2 <= 0 THEN "both"
    ELSE IF a1 < 0 /\ a2 > 0 THEN
        (IF a2 < p2 THEN "both" ELSE "first")
    ELSE IF a1 > 0 /\ a2 < 0 THEN
        (IF a1 < p1 THEN "both" ELSE "second")
    ELSE IF a1 > 0 /\ a2 > 0 THEN
        (IF a1 < p1 /\ a2 < p2 THEN "both"
         ELSE IF a1 < p1 /\ a2 > p2 THEN "first"
         ELSE IF a1 > p1 /\ a2 < p2 THEN "second"
         ELSE "continue")
    ELSE "none"

\* The chain with the test a2 < p_a[1] of its second block left out: x2 is
\* adopted with x1 whatever its threshold.
BranchSecondUntested(a1, a2, p1, p2) ==
    IF a1 < 0 /\ a2 < 0 THEN "both"
    ELSE IF a1 < 0 /\ a2 > 0 THEN "both"
    ELSE IF a1 > 0 /\ a2 < 0 THEN
        (IF a1 < p1 THEN "both" ELSE "second")
    ELSE IF a1 > 0 /\ a2 > 0 THEN
        (IF a1 < p1 /\ a2 < p2 THEN "both"
         ELSE IF a1 < p1 /\ a2 > p2 THEN "first"
         ELSE IF a1 > p1 /\ a2 < p2 THEN "second"
         ELSE "continue")
    ELSE "none"

\* The chain with its final else adopting the second trial coordinate
\* instead of continuing.
BranchElseSecond(a1, a2, p1, p2) ==
    IF a1 < 0 /\ a2 < 0 THEN "both"
    ELSE IF a1 < 0 /\ a2 > 0 THEN
        (IF a2 < p2 THEN "both" ELSE "first")
    ELSE IF a1 > 0 /\ a2 < 0 THEN
        (IF a1 < p1 THEN "both" ELSE "second")
    ELSE IF a1 > 0 /\ a2 > 0 THEN
        (IF a1 < p1 /\ a2 < p2 THEN "both"
         ELSE IF a1 < p1 /\ a2 > p2 THEN "first"
         ELSE "second")
    ELSE "none"

\* The if/elif chain that accepts or rejects the displacements: the branch
\* taken for scores a1, a2 and thresholds p1, p2.  "both", "first" and
\* "second" name the coordinates adopted, "continue" is the final else, and
\* "none" is an iteration in which no if or elif condition holds.
Branch(a1, a2, p1, p2) ==
    IF a1 < 0 /\ a2 < 0 THEN "both"
    ELSE IF a1 < 0 /\ a2 > 0 THEN
        (IF a2 < p2 THEN "both" ELSE "first")
    ELSE IF a1 > 0 /\ a2 < 0 THEN
        (IF a1 < p1 THEN "both" ELSE "second")
    ELSE IF a1 > 0 /\ a2 > 0 THEN
        (IF a1 < p1 /\ a2 < p2 THEN "both"
         ELSE IF a1 < p1 /\ a2 > p2 THEN "first"
         ELSE IF a1 > p1 /\ a2 < p2 THEN "second"
         ELSE "continue")
    ELSE "none"

\* The branch adopting the first coordinate only written as
\* x = np.array([x1, x2]): the rejected x2 is adopted too.
NewXFirstTakesBoth(cur, tr, br) ==
    IF br = "both" \/ br = "first" THEN <<tr[1], tr[2]>>
    ELSE <<cur[1], tr[2]>>

\* The configuration an accepting branch builds.
NewX(cur, tr, br) ==
    IF br = "both" THEN <<tr[1], tr[2]>>
    ELSE IF br = "first" THEN <<tr[1], cur[2]>>
    ELSE <<cur[1], tr[2]>>

\* Lines 60-71 with p_em bound: step 0 is stored, the energy is cached.
Enter ==
    /\ pc = "call"
    /\ p_em = "energy_em"
    /\ x' = x0
    /\ samples' = [Zeros(steps) EXCEPT ![1] = x0]
    /\ old_e' = CallPEm(x0)
    /\ c' = 1
    /\ pc' = "for"
    /\ UNCHANGED <<args, err, it, dx, trial, a, p_a, taken, ret,
                   appends, skips, accepted>>

\* Lines 60-65 with p_em unbound: the call at line 65 raises NameError.
EnterNameError ==
    /\ pc = "call"
    /\ p_em = "unbound"
    /\ x' = x0
    /\ samples' = [Zeros(steps) EXCEPT ![1] = x0]
    /\ pc' = "error"
    /\ err' = "NameError"
    /\ UNCHANGED <<args, old_e, c, it, dx, trial, a, p_a, taken, ret,
                   appends, skips, accepted>>

\* Line 72: the for statement starts the next iteration.  The locals of the
\* previous iteration are dead from here on (each is assigned at lines 75-84
\* before it is read), and are dropped.
ForNext ==
    /\ pc = "for"
    /\ it < LoopCount(steps)
    /\ it' = it + 1
    /\ pc' = "body"
    /\ dx' = None /\ trial' = None /\ a' = None /\ p_a' = None
    /\ taken' = ""
    /\ UNCHANGED <<args, err, x, samples, old_e, c, ret,
                   appends, skips, accepted>>

\* Lines 75-84: the displacements, the trial coordinates, the scores and the
\* thresholds.
Propose ==
    /\ pc = "body"
    /\ \E d1 \in DxSet, d2 \in DxSet, u1 \in USet, u2 \in USet :
          /\ dx' = <<d1, d2>>
          /\ trial' = <<x[1] + d1, x[2] + d2>>
          /\ a' = <<Score1(x, x[1] + d1, old_e), Score2(x, x[2] + d2, old_e)>>
          /\ p_a' = <<Threshold(u1), Threshold(u2)>>
    /\ pc' = "branch"
    /\ UNCHANGED <<args, err, x, samples, old_e, c, it, taken, ret,
                   appends, skips, accepted>>

\* The cache set to the energy of the full trial <<x1, x2>>, adopted or not.
CachedEnergyOfTrial(new, tr) == CallPEm(tr)

\* old_e = p_em(x, images, sigma, kT) in an accepting branch, x being the
\* configuration just built.
CachedEnergy(new, tr) == CallPEm(new)

\* The body of an accepting branch: x = ...; samples[c] = x; old_e = ...;
\* c += 1.  A write at an index past the buffer raises IndexError.
Adopt(br) ==
    LET new == NewX(x, trial, br)
    IN  /\ x' = new
        /\ taken' = br
        /\ IF c < Len(samples)
           THEN /\ samples' = [samples EXCEPT ![c + 1] = new]
                /\ old_e' = CachedEnergy(new, trial)
                /\ c' = NextC(c)
                /\ pc' = "for"
                /\ appends' = appends + 1
                /\ accepted' = Append(accepted, new)
                /\ UNCHANGED err
           ELSE /\ pc' = "error"
                /\ err' = "IndexError"
                /\ UNCHANGED <<samples, old_e, c, appends, accepted>>
        /\ UNCHANGED <<args, it, dx, trial, a, p_a, ret, skips>>

\* Lines 89-150: the branches that adopt both trial coordinates, the first
\* only, the second only.
AcceptBoth ==
    /\ pc = "branch"
    /\ Branch(a[1], a[2], p_a[1], p_a[2]) = "both"
    /\ Adopt("both")

AcceptFirst ==
    /\ pc = "branch"
    /\ Branch(a[1], a[2], p_a[1], p_a[2]) = "first"
    /\ Adopt("first")

AcceptSecond ==
    /\ pc = "branch"
    /\ Branch(a[1], a[2], p_a[1], p_a[2]) = "second"
    /\ Adopt("second")

\* An iteration that appends nothing.
Skip(br) ==
    /\ taken' = br
    /\ pc' = "for"
    /\ skips' = skips + 1
    /\ UNCHANGED <<args, err, x, samples, old_e, c, it, dx, trial, a, p_a,
                   ret, appends, accepted>>

\* Lines 152-154: the final else, continue.
Continue ==
    /\ pc = "branch"
    /\ Branch(a[1], a[2], p_a[1], p_a[2]) = "continue"
    /\ Skip("continue")

\* No condition of the chain holds (a score is 0): the body ends.
FallThrough ==
    /\ pc = "branch"
    /\ Branch(a[1], a[2], p_a[1], p_a[2]) = "none"
    /\ Skip("none")

\* Lines 72 and 159: the range is exhausted and samples[:c, :] is returned.
Return ==
    /\ pc = "for"
    /\ it >= LoopCount(steps)
    /\ ret' = Slice(samples, c)
    /\ pc' = "done"
    /\ UNCHANGED <<args, err, x, samples, old_e, c, it, dx, trial, a, p_a,
                   taken, appends, skips, accepted>>

Next ==
    \/ Enter
    \/ EnterNameError
    \/ ForNext
    \/ Propose
    \/ AcceptBoth
    \/ AcceptFirst
    \/ AcceptSecond
    \/ Continue
    \/ FallThrough
    \/ Return

Spec == Init /\ [][Next]_vars

\* ------------------------------------------------------------------------
\* The claims.
\* ------------------------------------------------------------------------

\* The Metropolis rule for coordinate i: accepted iff its score is negative
\* or below its threshold.
Rule(i) == a[i] < 0 \/ a[i] < p_a[i]

\* An iteration has completed and its locals are still in place.
IterationDone == pc \in {"for", "done"} /\ taken # ""

Adopted1 == taken \in {"both", "first"}
Adopted2 == taken \in {"both", "second"}

\* C1: in every iteration the branch taken adopts coordinate i if and only
\* if score_i < 0 or score_i < threshold_i, a score equal to 0 or to its
\* threshold included.  The code does not: a score of exactly 0, or one
\* equal to its threshold, leaves the chain without a matching condition.
C1_BranchIsTwoDecisions ==
    IterationDone => (Adopted1 <=> Rule(1)) /\ (Adopted2 <=> Rule(2))

\* s is a subsequence of t: the entries of s occur in t, in the same order.
RECURSIVE IsSubseq(_, _)
IsSubseq(s, t) ==
    IF s = << >> THEN TRUE
    ELSE IF t = << >> THEN FALSE
    ELSE IF Head(s) = Head(t) THEN IsSubseq(Tail(s), Tail(t))
    ELSE IsSubseq(s, Tail(t))

\* C2, as claimed: the returned sequence holds only configurations adopted
\* by an accepting iteration, in the order of their adoption.
C2_OnlyAccepted ==
    pc = "done" => Len(ret) <= Len(accepted) /\ IsSubseq(ret, accepted)

\* C2, amended: the returned sequence is the initial configuration x0
\* followed by exactly the configurations adopted by the accepting
\* iterations, in the order of their adoption.
C2_InitialThenAccepted ==
    pc = "done" => ret = <<x0>> \o accepted

C2_Witness ==
    pc = "done" /\ Len(accepted) >= 2 /\ accepted[1] # accepted[2]

\* C3: the returned sequence has between 0 and steps entries; for steps = 1
\* it has 0 or 1.
C3_LengthBound ==
    pc = "done" =>
        /\ Len(ret) \in 0..steps
        /\ steps = 1 => Len(ret) \in {0, 1}

C3_Witness ==
    pc = "done" /\ steps >= 2 /\ Len(ret) = steps

\* C4, as claimed: a run that returns has performed exactly steps
\* iterations.
C4_StepsIterations ==
    pc = "done" => it = steps /\ appends + skips = steps

\* The run has a step to take: the guard of some action holds (the
\* assignments of an action can always be made).
CanStep ==
    \/ pc = "call" /\ p_em \in {"energy_em", "unbound"}
    \/ pc = "for" /\ (it < LoopCount(steps) \/ it >= LoopCount(steps))
    \/ pc = "body" /\ DxSet # {} /\ USet # {}
    \/ pc = "branch" /\ Branch(a[1], a[2], p_a[1], p_a[2])
                            \in {"both", "first", "second", "continue", "none"}

\* The steps a run may still take, at most: three per iteration not yet
\* started (for, body, branch), the rest of the current one, the return.
Rank ==
    LET left == 3 * (LoopCount(steps) - it)
    IN  CASE pc = "call" -> left + 2
          [] pc = "for" -> left + 1
          [] pc = "body" -> left + 3
          [] pc = "branch" -> left + 2
          [] OTHER -> 0

\* C4, amended: a run that returns has performed exactly steps - 1
\* iterations, however many of them appended.  Every run ends: until it
\* has returned or raised it has a step to take, and every step brings the
\* end nearer.  It ends by returning when p_em is bound, and by NameError
\* before the first iteration when it is not.
C4_StepsMinusOneIterations ==
    /\ [](pc = "done" => it = steps - 1 /\ appends + skips = steps - 1)
    /\ [](pc = "error" => p_em = "unbound" /\ err = "NameError" /\ it = 0)
    /\ [](pc \notin {"done", "error"} => CanStep /\ Rank > 0)
    /\ [][Rank' < Rank]_vars

C4_Witness ==
    pc = "done" /\ steps >= 3 /\ appends >= 1 /\ skips >= 1

\* The iterations completed so far.
Completed == IF pc \in {"body", "branch"} THEN it - 1 ELSE it

\* C5: at every point the iterations completed are those that appended
\* (the rows written after step 0, c - 1) plus those that skipped; every
\* iteration does exactly one of the two; the count never exceeds steps.
C5_AppendsPlusSkips ==
    /\ [](pc \notin {"call", "error"} =>
            /\ appends = c - 1
            /\ Completed = (c - 1) + skips
            /\ it <= steps)
    /\ [][pc = "branch" =>
            \/ c' = c + 1 /\ skips' = skips
            \/ c' = c /\ skips' = skips + 1]_vars

C5_Witness ==
    pc = "for" /\ it >= 2 /\ appends >= 1 /\ skips >= 1

\* C7: with a non-empty dataset and valid parameters a run never reaches an
\* error state.  The code does: p_em is not defined in the file.
C7_NoError ==
    (steps >= 1 /\ Len(images) >= 1 /\ sigma > 0 /\ kT > 0) => pc # "error"

\* C8: a call with an empty dataset is rejected with an error before any
\* energy is evaluated; it never enters the loop and returns nothing.
C8_EmptyDatasetRejected ==
    (Len(images) = 0 /\ pc # "call") => pc = "error" /\ ret = None

\* The configuration X with its coordinates swapped.
Swap(X) == <<X[2], X[1]>>

\* The configurations whose energy do_mcmc is about to evaluate, or has
\* just evaluated and may adopt: x0 at the call, and in an iteration the
\* current configuration and the three built from the trial coordinates.
\* (Every configuration a run holds elsewhere was one of these before.)
Evaluated ==
    IF pc = "call" THEN {x0}
    ELSE IF pc = "branch"
         THEN {x, <<trial[1], x[2]>>, <<x[1], trial[2]>>, trial}
         ELSE {}

\* C9: energy_em gives the same value for a configuration and for the
\* swapped one, for every dataset, sigma and kT.
C9_SwapInvariant ==
    \A X \in Evaluated :
        energy_em(X, images, sigma, kT) = energy_em(Swap(X), images, sigma, kT)

C9_Witness ==
    /\ pc = "branch" /\ Len(images) = 2 /\ sigma = 2
    /\ trial[1] # trial[2] /\ x[1] # x[2]
    /\ energy_em(trial, images, sigma, kT) # energy_em(x, images, sigma, kT)

\* kT times the negative log of the mixture likelihood: minus kT times the
\* sum over the observations v of log(0.5 k(x1, v) + 0.5 k(x2, v)).
RECURSIVE MixtureLogLik(_, _, _, _)
MixtureLogLik(X, obs, sg, n) ==
    IF n = 0 THEN 0
    ELSE MixtureLogLik(X, obs, sg, n - 1)
            + Ln((Kernel(X[1], obs[n], sg) + Kernel(X[2], obs[n], sg)) \div 2)

MixtureEnergy(X, obs, sg, k) == -(k * MixtureLogLik(X, obs, sg, Len(obs)))

\* The rounding allowed per observation when two energies are compared:
\* 0.01.
Tol == ONE \div 100

Abs(n) == IF n < 0 THEN -n ELSE n

\* C10: energy_em is kT times the negative log of the mixture likelihood
\* (up to rounding).  The code's is not: it takes logsumexp of the weighted
\* kernels, log(e^(0.5 k1) + e^(0.5 k2)), not the log of their sum.
C10_EnergyIsMixture ==
    \A X \in Evaluated :
        Abs(energy_em(X, images, sigma, kT) - MixtureEnergy(X, images, sigma, kT))
            <= kT * Len(images) * Tol


\* The prior widths the prior is checked with; do_mcmc passes PriorWidth.
WidthSet == {1, 2, PriorWidth}

\* The coordinates a run holds in the current state.
Coordinates ==
    IF pc = "branch" THEN {0, x[1], x[2], trial[1], trial[2]} ELSE {}

\* C11: prior(x, width, kT) is kT * 0.5 * (x / width)^2 (rounded down to
\* the fixed-point unit): it is 0 at x = 0, and strictly increasing in |x|.
C11_PriorQuadratic ==
    \A w \in WidthSet :
        /\ prior(0, w, kT) = 0
        /\ \A u \in Coordinates :
              LET q == prior(u, w, kT)
              IN  /\ 2 * w * w * q <= kT * u * u * ONE
                  /\ kT * u * u * ONE < 2 * w * w * (q + 1)
        /\ \A u \in Coordinates, v \in Coordinates :
              Abs(u) < Abs(v) => prior(u, w, kT) < prior(v, w, kT)

C11_Witness ==
    /\ pc = "branch" /\ kT = 2
    /\ x[1] < 0 /\ Abs(x[1]) < Abs(trial[1]) /\ Abs(trial[1]) < Abs(x[2])


Accepting == {"both", "first", "second"}
Skipping == {"continue", "none"}

\* C12: at the start of every iteration and at return the cached energy is
\* the energy model's value on the current configuration; an iteration
\* recomputes it exactly when it changes x, and then to the energy of the
\* configuration adopted, never to that of a trial left unadopted.
C12_CacheIsEnergyOfCurrent ==
    /\ [](pc \in {"body", "done"} => old_e = CallPEm(x))
    /\ [][pc = "branch" =>
            IF x' # x
            THEN /\ taken' \in Accepting
                 /\ old_e' = CallPEm(x')
            ELSE /\ taken' \in Skipping
                 /\ old_e' = old_e]_vars

C12_Witness ==
    /\ pc = "done" /\ taken = "first" /\ it >= 2
    /\ trial[2] # x[2]
    /\ old_e # CallPEm(trial)
    /\ old_e # CallPEm(x0)


\* Neither coordinate is accepted in the iteration being decided: both
\* fail the Metropolis test, or the chain adopts nothing.
NeitherAccepted ==
    \/ ~Rule(1) /\ ~Rule(2)
    \/ Branch(a[1], a[2], p_a[1], p_a[2]) \in Skipping

\* C13: an iteration in which neither coordinate is accepted leaves the
\* current configuration, the cached energy, the counter and every entry
\* of the sample buffer as they were, and goes on to the for statement.
C13_SkipChangesNothing ==
    [][(pc = "branch" /\ NeitherAccepted) =>
          /\ x' = x /\ old_e' = old_e /\ c' = c /\ samples' = samples
          /\ pc' = "for" /\ it' = it /\ ret' = ret /\ err' = err]_vars

C13_Witness ==
    /\ IterationDone /\ taken = "continue" /\ it >= 2 /\ c >= 2
    /\ ~Rule(1) /\ ~Rule(2)
    /\ trial[1] # x[1] /\ trial[2] # x[2]


\* The buffer buf with row r (index r + 1) set to row and nothing else
\* changed.
WithRow(buf, r, row) ==
    [k \in 1..Len(buf) |-> IF k = r + 1 THEN row ELSE buf[k]]

\* C14: an iteration whose branch accepts at least one coordinate builds
\* the new configuration from x_i + dx_i for each accepted coordinate and
\* the previous value for the other, appends exactly one entry, equal to
\* it, at index c, and advances the counter by one.
C14_AdoptAcceptedOnly ==
    [][(pc = "branch" /\ Branch(a[1], a[2], p_a[1], p_a[2]) \in Accepting) =>
          /\ taken' \in Accepting
          /\ x'[1] = (IF taken' \in {"both", "first"}
                      THEN x[1] + dx[1] ELSE x[1])
          /\ x'[2] = (IF taken' \in {"both", "second"}
                      THEN x[2] + dx[2] ELSE x[2])
          /\ c' = c + 1
          /\ samples' = WithRow(samples, c, x')
          /\ Len(accepted') = Len(accepted) + 1]_vars

C14_Witness ==
    /\ IterationDone /\ taken = "first" /\ c >= 3
    /\ dx[1] # 0 /\ dx[2] # 0
    /\ samples[c] = x /\ samples[c] # samples[c - 1]
    /\ x[2] = samples[c - 1][2]


\* C15: each score is computed against the current configuration only:
\* a1 = Energy(x1 + dx1, x2) - old_e - prior(x1 + dx1) + prior(x1) and
\* a2 = Energy(x1, x2 + dx2) - old_e - prior(x2 + dx2) + prior(x2), the
\* other coordinate held at its current value; neither depends on the
\* other coordinate's displacement.
C15_ScoresAgainstCurrent ==
    pc = "branch" =>
        /\ trial = <<x[1] + dx[1], x[2] + dx[2]>>
        /\ a[1] = energy_em(<<x[1] + dx[1], x[2]>>, images, sigma, kT) - old_e
                    - prior(x[1] + dx[1], PriorWidth, kT)
                    + prior(x[1], PriorWidth, kT)
        /\ a[2] = energy_em(<<x[1], x[2] + dx[2]>>, images, sigma, kT) - old_e
                    - prior(x[2] + dx[2], PriorWidth, kT)
                    + prior(x[2], PriorWidth, kT)

C15_Witness ==
    /\ pc = "branch" /\ it >= 2 /\ x # x0 /\ Len(images) = 2
    /\ dx[1] # 0 /\ dx[2] # 0
    /\ a[1] > 0 /\ a[2] < 0
    /\ energy_em(trial, images, sigma, kT)
          # energy_em(<<trial[1], x[2]>>, images, sigma, kT)


\* C16: a coordinate whose score is negative is accepted in that
\* iteration, whatever the other score and the thresholds.  The code does
\* not when the other score is exactly 0: no condition of the chain holds.
C16_NegativeScoreAccepted ==
    IterationDone => (a[1] < 0 => Adopted1) /\ (a[2] < 0 => Adopted2)


\* C17: a coordinate changes in an iteration only if it passes the
\* Metropolis test (its score is negative or below its threshold); a
\* coordinate whose score is positive and not below its threshold keeps
\* its value.
C17_OnlyPassingAdopted ==
    [][pc = "branch" =>
          /\ (x'[1] # x[1] \/ taken' \in {"both", "first"}) => Rule(1)
          /\ (x'[2] # x[2] \/ taken' \in {"both", "second"}) => Rule(2)
          /\ (a[1] > 0 /\ a[1] >= p_a[1]) => x'[1] = x[1]
          /\ (a[2] > 0 /\ a[2] >= p_a[2]) => x'[2] = x[2]]_vars

C17_Witness ==
    /\ IterationDone /\ taken = "first"
    /\ a[1] > 0 /\ a[1] < p_a[1]
    /\ a[2] > 0 /\ a[2] > p_a[2]
    /\ dx[2] # 0 /\ x[2] # trial[2] /\ x[1] = trial[1]


\* C18: the sample buffer is append-only.  The counter never decreases and
\* grows by exactly 1 in an accepting iteration and by 0 otherwise; every
\* write goes to index c with c < steps, so none is out of bounds; the
\* entries below c are never modified, and the rows above the one written
\* stay untouched.
C18_AppendOnly ==
    /\ [](err # "IndexError")
    /\ [](pc \notin {"call", "error"} => c \in 1..steps /\ Len(samples) = steps)
    /\ [][c' >= c]_vars
    /\ [][pc = "branch" =>
            /\ c' = (IF Branch(a[1], a[2], p_a[1], p_a[2]) \in Accepting
                     THEN c + 1 ELSE c)
            /\ c' > c => c < steps
            /\ \A k \in 1..Len(samples) :
                  (k # c + 1 \/ c' = c) => samples'[k] = samples[k]]_vars
    /\ [][(pc \in {"for", "body", "done"}) =>
            (samples' = samples /\ c' = c)]_vars

C18_Witness ==
    /\ pc = "done" /\ steps >= 3 /\ c = steps
    /\ samples[1] = x0 /\ samples[2] # samples[1] /\ samples[3] # samples[2]
    /\ ret = samples


\* C19: the initial configuration x0 is stored as the first entry before
\* any proposal is drawn; a run that returns gives a non-empty sequence
\* whose first entry is x0 and whose length is the number of accepting
\* iterations plus one.
C19_InitialFirst ==
    /\ pc \in {"for", "body", "branch", "done"} => (c >= 1 /\ samples[1] = x0)
    /\ pc = "done" =>
          /\ Len(ret) >= 1
          /\ ret[1] = x0
          /\ Len(ret) = appends + 1
          /\ Len(ret) = Len(accepted) + 1

C19_Witness ==
    /\ pc = "done" /\ steps = 3 /\ appends = 1 /\ skips = 1
    /\ Len(ret) = 2 /\ ret[2] # x0

\* C20: no two consecutive entries of the returned sequence are equal.  A
\* zero displacement gives a score of exactly 0, a coordinate is adopted
\* only with a non-zero score, and so every appended configuration differs
\* from the entry before it in each coordinate adopted.
C20_NoRepeatedEntry ==
    /\ [](pc = "done" => \A k \in 1..(Len(ret) - 1) : ret[k] # ret[k + 1])
    /\ [](pc = "branch" =>
            \A i \in {1, 2} : (dx[i] = 0 => a[i] = 0))
    /\ [][pc = "branch" =>
            /\ taken' \in {"both", "first"} => (a[1] # 0 /\ x'[1] # x[1])
            /\ taken' \in {"both", "second"} => (a[2] # 0 /\ x'[2] # x[2])
            /\ taken' \in Accepting => samples'[c + 1] # samples[c]]_vars

C20_Witness ==
    /\ pc = "done" /\ Len(ret) = 3 /\ ret[3] = ret[1]
    /\ ret[2][1] = ret[1][1]

====
